---- MODULE Spec2Model ----
(***************************************************************************)
(* Model of the Spine asset validation pipeline of src/main.js:            *)
(* validateSpineAssets -> normalizeSpineData -> collectAnimations ->       *)
(* extractSpineAttachmentRequirements -> cross-reference against the atlas *)
(* regions (Spec), of the page around it, its file selectors and buttons   *)
(* (SpecRuns), and of the callback-based loader of src/unnamed/part_000    *)
(* (SpecLoader).                                                           *)
(*                                                                         *)
(* JavaScript strings are sequences of one-character strings, so that      *)
(* toLowerCase, trim, startsWith, sort and template concatenation are      *)
(* computed character by character.  A JSON value is a record              *)
(*   [t |-> tag, s |-> characters, e |-> entries]                          *)
(* with tag in undef/null/str/num/arr/obj; e is the ordered list of        *)
(* [k |-> key, v |-> value] own properties (index keys for arrays).        *)
(***************************************************************************)
EXTENDS Integers, Sequences, FiniteSets, TLC

VARIABLES pc, spineData, normalizedData, atlasContents, allRegions,
          validation, attachmentReport, validationResults, raised,
          files, runs, loadDisabled, revalidateShown, revalidateDisabled,
          triggers

\* the page: the selected files, the validation requests started from the
\* two buttons, and the state of the buttons
pageVars == <<files, runs, loadDisabled, revalidateShown, revalidateDisabled>>

\* the callback-based loader: the calls of checkAndLoadSpine in flight
loaderVars == <<triggers>>

\* one validation run
runVars == <<pc, spineData, normalizedData, atlasContents, allRegions,
             validation, attachmentReport, raised>>

vars == <<pc, spineData, normalizedData, atlasContents, allRegions,
          validation, attachmentReport, validationResults, raised,
          files, runs, loadDisabled, revalidateShown, revalidateDisabled,
          triggers>>

(***************************************************************************)
(* Bounds of the model.                                                    *)
(***************************************************************************)
MaxAtlases == 2

\* validation requests started from the buttons
MaxRuns == 2

\* calls of checkAndLoadSpine that start reading
MaxTriggers == 2

(***************************************************************************)
(* String literals of the source.                                          *)
(***************************************************************************)
K_name == <<"n","a","m","e">>
K_path == <<"p","a","t","h">>
K_image == <<"i","m","a","g","e">>
K_type == <<"t","y","p","e">>
K_slots == <<"s","l","o","t","s">>
K_skins == <<"s","k","i","n","s">>
K_bones == <<"b","o","n","e","s">>
K_skeleton == <<"s","k","e","l","e","t","o","n">>
K_animations == <<"a","n","i","m","a","t","i","o","n","s">>
K_animation == <<"a","n","i","m","a","t","i","o","n">>
K_data == <<"d","a","t","a">>
K_attachment == <<"a","t","t","a","c","h","m","e","n","t">>
K_deform == <<"d","e","f","o","r","m">>

T_standard == <<"s","t","a","n","d","a","r","d">>
T_legacy == <<"l","e","g","a","c","y">>
T_objectAnimations == <<"o","b","j","e","c","t","-","a","n","i","m","a","t","i","o","n","s">>
T_complex == <<"c","o","m","p","l","e","x">>
T_unknown == <<"u","n","k","n","o","w","n">>

L_clipping == <<"c","l","i","p","p","i","n","g">>
L_boundingbox == <<"b","o","u","n","d","i","n","g","b","o","x">>
L_point == <<"p","o","i","n","t">>
L_vertex == <<"v","e","r","t","e","x">>
L_null == <<"n","u","l","l">>
L_undefined == <<"u","n","d","e","f","i","n","e","d">>
L_empty == <<"_","e","m","p","t","y">>
L_skinColon == <<"s","k","i","n",":">>
L_skinUnderscore == <<"s","k","i","n","_">>
L_slotColon == <<"s","l","o","t",":">>
L_default == <<"_","d","e","f","a","u","l","t">>
L_animUnderscore == <<"a","n","i","m","_">>
L_animationColon == <<"a","n","i","m","a","t","i","o","n",":">>
L_deformColon == <<"d","e","f","o","r","m",":">>
L_declaredColon == <<"d","e","c","l","a","r","e","d",":">>
L_unknown == <<"u","n","k","n","o","w","n">>
L_objectObject == <<"[","o","b","j","e","c","t"," ","O","b","j","e","c","t","]">>
L_undefinedAttachmentReference ==
  <<"u","n","d","e","f","i","n","e","d","_","a","t","t","a","c","h","m","e","n","t",
    "_","r","e","f","e","r","e","n","c","e">>

(***************************************************************************)
(* Characters: UTF-16 order of the characters the documents use, and the   *)
(* upper/lower case pairs.                                                 *)
(***************************************************************************)
CharOrder ==
  <<" ", "-", ".", "0", "1", "2", "3", "4", "5", "6", "7", "8", "9", ":",
    "A", "B", "C", "D", "E", "F", "G", "H", "I", "J", "K", "L", "M",
    "N", "O", "P", "Q", "R", "S", "T", "U", "V", "W", "X", "Y", "Z",
    "[", "]", "_",
    "a", "b", "c", "d", "e", "f", "g", "h", "i", "j", "k", "l", "m",
    "n", "o", "p", "q", "r", "s", "t", "u", "v", "w", "x", "y", "z">>

Code(c) == CHOOSE i \in 1..Len(CharOrder) : CharOrder[i] = c

UpperFirst == Code("A")
UpperLast == Code("Z")
CaseShift == Code("a") - Code("A")

\* String.prototype.toLowerCase, one character
LowerChar(c) ==
  LET i == Code(c) IN
  IF i >= UpperFirst /\ i <= UpperLast THEN CharOrder[i + CaseShift] ELSE c

\* String.prototype.toLowerCase
toLowerCase(cs) == [i \in 1..Len(cs) |-> LowerChar(cs[i])]

RECURSIVE TrimStart(_)
TrimStart(cs) ==
  IF cs # <<>> /\ Head(cs) = " " THEN TrimStart(Tail(cs)) ELSE cs

RECURSIVE TrimEnd(_)
TrimEnd(cs) ==
  IF cs # <<>> /\ cs[Len(cs)] = " " THEN TrimEnd(SubSeq(cs, 1, Len(cs) - 1)) ELSE cs

\* String.prototype.trim
trim(cs) == TrimEnd(TrimStart(cs))

\* String.prototype.startsWith
startsWith(cs, prefix) ==
  Len(cs) >= Len(prefix) /\ SubSeq(cs, 1, Len(prefix)) = prefix

\* the default comparison of Array.prototype.sort: a < b by UTF-16 code units
RECURSIVE StrLess(_, _)
StrLess(a, b) ==
  IF b = <<>> THEN FALSE
  ELSE IF a = <<>> THEN TRUE
  ELSE IF Head(a) = Head(b) THEN StrLess(Tail(a), Tail(b))
  ELSE Code(Head(a)) < Code(Head(b))

RECURSIVE SortInsert(_, _)
SortInsert(sorted, x) ==
  IF sorted = <<>> THEN <<x>>
  ELSE IF StrLess(x, Head(sorted)) THEN <<x>> \o sorted
  ELSE <<Head(sorted)>> \o SortInsert(Tail(sorted), x)

\* Array.prototype.sort() on strings (stable)
RECURSIVE sort(_)
sort(xs) ==
  IF xs = <<>> THEN <<>>
  ELSE SortInsert(sort(SubSeq(xs, 1, Len(xs) - 1)), xs[Len(xs)])

(***************************************************************************)
(* JSON values and the JavaScript operations the pipeline applies to them. *)
(***************************************************************************)
Undef == [t |-> "undef", s |-> <<>>, e |-> <<>>]
Null == [t |-> "null", s |-> <<>>, e |-> <<>>]
Str(cs) == [t |-> "str", s |-> cs, e |-> <<>>]
Num(cs) == [t |-> "num", s |-> cs, e |-> <<>>]
Obj(es) == [t |-> "obj", s |-> <<>>, e |-> es]
P(key, val) == [k |-> key, v |-> val]

\* the property key of array index i (0-based)
Idx(i) == <<CharOrder[Code("0") + i]>>

Arr(vs) == [t |-> "arr", s |-> <<>>, e |-> [i \in 1..Len(vs) |-> P(Idx(i - 1), vs[i])]]

\* ToBoolean
Truthy(v) ==
  /\ v.t \notin {"undef", "null"}
  /\ ~(v.t = "str" /\ v.s = <<>>)
  /\ ~(v.t = "num" /\ v.s = <<"0">>)

isArray(v) == v.t = "arr"

\* typeof v === 'object'
TypeofObject(v) == v.t \in {"obj", "arr", "null"}

\* typeof v === 'string'
TypeofString(v) == v.t = "str"

\* own enumerable properties: Object.entries(v), and what {...v} copies
Entries(v) ==
  IF v.t \in {"obj", "arr"} THEN v.e
  ELSE IF v.t = "str" THEN [i \in 1..Len(v.s) |-> P(Idx(i - 1), Str(<<v.s[i]>>))]
  ELSE <<>>

HasKey(v, key) == \E i \in 1..Len(Entries(v)) : Entries(v)[i].k = key

\* v[key] for a v that is not null/undefined (the keys the source reads are
\* never "length" or a method name)
Get(v, key) ==
  IF HasKey(v, key)
  THEN LET es == Entries(v) IN es[CHOOSE i \in 1..Len(es) : es[i].k = key].v
  ELSE Undef

\* a || b
Or(a, b) == IF Truthy(a) THEN a ELSE b

\* String(v); an array is its elements joined by commas, null and undefined
\* elements giving the empty string (Array.prototype.join)
RECURSIVE String(_)
RECURSIVE JoinElements(_)
JoinElements(es) ==
  IF es = <<>> THEN <<>>
  ELSE (IF Head(es).v.t \in {"null", "undef"} THEN <<>> ELSE String(Head(es).v))
       \o (IF Tail(es) = <<>> THEN <<>> ELSE <<",">> \o JoinElements(Tail(es)))

String(v) ==
  IF v.t \in {"str", "num"} THEN v.s
  ELSE IF v.t = "null" THEN L_null
  ELSE IF v.t = "undef" THEN L_undefined
  ELSE IF v.t = "arr" THEN JoinElements(v.e)
  ELSE L_objectObject

\* obj[key] = val on an object literal under construction: an existing key
\* keeps its position, a new key is appended
Put(o, key, val) ==
  IF HasKey(o, key)
  THEN Obj([i \in 1..Len(o.e) |-> IF o.e[i].k = key THEN P(key, val) ELSE o.e[i]])
  ELSE Obj(Append(o.e, P(key, val)))

\* { ...target, ...src }
RECURSIVE PutAll(_, _)
PutAll(o, es) ==
  IF es = <<>> THEN o ELSE PutAll(Put(o, Head(es).k, Head(es).v), Tail(es))

Spread(o, src) == PutAll(o, Entries(src))

\* the values of a list of entries
Values(es) == [i \in 1..Len(es) |-> es[i].v]

(***************************************************************************)
(* normalizeSpineData and convertAnimationsToArray                         *)
(***************************************************************************)
RECURSIVE FilterNamed(_)
FilterNamed(vs) ==
  IF vs = <<>> THEN <<>>
  ELSE IF Truthy(Head(vs)) /\ Truthy(Get(Head(vs), K_name))
       THEN <<Head(vs)>> \o FilterNamed(Tail(vs))
       ELSE FilterNamed(Tail(vs))

convertAnimationsToArray(animationsObj) ==
  IF isArray(animationsObj) THEN animationsObj
  ELSE IF TypeofObject(animationsObj) /\ animationsObj # Null
  THEN LET es == Entries(animationsObj)
           mapped == [i \in 1..Len(es) |->
                        Spread(Obj(<<P(K_name, Str(es[i].k))>>), es[i].v)]
       IN Arr(FilterNamed(mapped))
  ELSE Arr(<<>>)

\* normalizeSpineData with the last branch leaving an unrecognized shape untagged
normalizeSpineData_untaggedUnknown(d) ==
  LET anims == Get(d, K_animations) IN
  IF Truthy(Get(d, K_skeleton)) /\ Truthy(anims) /\ isArray(anims)
  THEN Put(Spread(Obj(<<>>), d), K_type, Str(T_standard))
  ELSE IF Truthy(Get(d, K_bones)) /\ Truthy(Get(d, K_slots)) /\ Truthy(Get(d, K_skins))
  THEN Put(Spread(Obj(<<>>), d), K_type, Str(T_legacy))
  ELSE IF Truthy(anims) /\ ~isArray(anims)
  THEN Put(Put(Spread(Obj(<<>>), d), K_type, Str(T_objectAnimations)),
           K_animations, convertAnimationsToArray(anims))
  ELSE LET skins == Get(d, K_skins)
           hasSkins == Truthy(skins) /\ (isArray(skins) \/ TypeofObject(skins))
           hasAnimations == Truthy(anims) /\ (isArray(anims) \/ TypeofObject(anims))
       IN Put(Put(Spread(Obj(<<>>), d), K_type,
                  IF hasSkins /\ hasAnimations THEN Str(T_complex) ELSE Undef),
              K_animations, IF isArray(anims) THEN anims ELSE Arr(<<>>))

normalizeSpineData(d) ==
  LET anims == Get(d, K_animations) IN
  IF Truthy(Get(d, K_skeleton)) /\ Truthy(anims) /\ isArray(anims)
  THEN Put(Spread(Obj(<<>>), d), K_type, Str(T_standard))
  ELSE IF Truthy(Get(d, K_bones)) /\ Truthy(Get(d, K_slots)) /\ Truthy(Get(d, K_skins))
  THEN Put(Spread(Obj(<<>>), d), K_type, Str(T_legacy))
  ELSE IF Truthy(anims) /\ ~isArray(anims)
  THEN Put(Put(Spread(Obj(<<>>), d), K_type, Str(T_objectAnimations)),
           K_animations, convertAnimationsToArray(anims))
  ELSE LET skins == Get(d, K_skins)
           hasSkins == Truthy(skins) /\ (isArray(skins) \/ TypeofObject(skins))
           hasAnimations == Truthy(anims) /\ (isArray(anims) \/ TypeofObject(anims))
       IN Put(Put(Spread(Obj(<<>>), d), K_type,
                  Str(IF hasSkins /\ hasAnimations THEN T_complex ELSE T_unknown)),
              K_animations, IF isArray(anims) THEN anims ELSE Arr(<<>>))

(***************************************************************************)
(* collectAnimations and extractAnimationsFallback.  validation.animations *)
(* is a JavaScript Set: a duplicate-free list in insertion order.          *)
(***************************************************************************)
\* Set.prototype.has
SetHas(xs, x) == \E i \in 1..Len(xs) : xs[i] = x

\* Set.prototype.add
SetAdd(xs, x) == IF SetHas(xs, x) THEN xs ELSE Append(xs, x)

\* v?.key
OptGet(v, key) == IF v.t \in {"undef", "null"} THEN Undef ELSE Get(v, key)

\* the forEach body of the standard/legacy and complex (sequence) branches
RECURSIVE CollectFromArray(_, _)
CollectFromArray(anims, vs) ==
  IF vs = <<>> THEN anims
  ELSE LET anim == Head(vs) IN
       CollectFromArray(
         IF Truthy(anim) /\ (Truthy(Get(anim, K_name)) \/ TypeofString(anim))
         THEN SetAdd(anims, IF TypeofString(anim) THEN anim ELSE Get(anim, K_name))
         ELSE anims,
         Tail(vs))

\* the forEach body of the object-animations branch
RECURSIVE CollectNamed(_, _)
CollectNamed(anims, vs) ==
  IF vs = <<>> THEN anims
  ELSE LET anim == Head(vs) IN
       CollectNamed(
         IF Truthy(anim) /\ Truthy(Get(anim, K_name))
         THEN SetAdd(anims, Get(anim, K_name)) ELSE anims,
         Tail(vs))

\* the Object.keys(location).forEach body of the complex branch
RECURSIVE CollectFromMapping(_, _)
CollectFromMapping(anims, es) ==
  IF es = <<>> THEN anims
  ELSE LET anim == Head(es).v
           key == Str(Head(es).k) IN
       CollectFromMapping(
         IF Truthy(anim) /\ (Truthy(Get(anim, K_name)) \/ Truthy(key))
         THEN SetAdd(anims, Or(Get(anim, K_name), key)) ELSE anims,
         Tail(es))

RECURSIVE CollectLocations(_, _)
CollectLocations(anims, locations) ==
  IF locations = <<>> THEN anims
  ELSE LET location == Head(locations) IN
       CollectLocations(
         IF isArray(location) THEN CollectFromArray(anims, Values(Entries(location)))
         ELSE IF Truthy(location) /\ TypeofObject(location)
         THEN CollectFromMapping(anims, Entries(location))
         ELSE anims,
         Tail(locations))

\* findAnimations(obj, path) with the Set threaded through
RECURSIVE findAnimations(_, _, _)
\* a walk that also goes into the objects it has classified
RECURSIVE FindInEntries_descending(_, _, _, _)
FindInEntries_descending(anims, es, path, inArray) ==
  IF es = <<>> THEN anims
  ELSE LET key == Head(es).k
           value == Head(es).v
           subPath == IF inArray THEN path \o <<"[">> \o key \o <<"]">>
                      ELSE path \o <<".">> \o key
           added == IF Truthy(value) /\ TypeofObject(value)
                       /\ (Truthy(Get(value, K_name)) \/ Truthy(Get(value, K_animation)))
                    THEN SetAdd(anims, Or(Get(value, K_name), Get(value, K_animation)))
                    ELSE anims
       IN FindInEntries_descending(
            IF Truthy(value) /\ TypeofObject(value)
            THEN findAnimations(added, value, subPath)
            ELSE added,
            Tail(es), path, inArray)

RECURSIVE FindInEntries(_, _, _, _)
FindInEntries(anims, es, path, inArray) ==
  IF es = <<>> THEN anims
  ELSE LET key == Head(es).k
           value == Head(es).v
           synthesized == IF inArray THEN L_animUnderscore \o path \o <<"_">> \o key
                          ELSE key
           subPath == IF inArray THEN path \o <<"[">> \o key \o <<"]">>
                      ELSE path \o <<".">> \o key
       IN FindInEntries(
            IF Truthy(value) /\ TypeofObject(value)
               /\ (Truthy(Get(value, K_name)) \/ Truthy(Get(value, K_animation)))
            THEN SetAdd(anims, Or(Or(Get(value, K_name), Get(value, K_animation)),
                                  Str(synthesized)))
            ELSE IF Truthy(value) /\ TypeofObject(value)
            THEN findAnimations(anims, value, subPath)
            ELSE anims,
            Tail(es), path, inArray)

findAnimations(anims, obj, path) ==
  IF isArray(obj) THEN FindInEntries(anims, Entries(obj), path, TRUE)
  ELSE IF Truthy(obj) /\ TypeofObject(obj)
  THEN FindInEntries(anims, Entries(obj), path, FALSE)
  ELSE anims

extractAnimationsFallback(data) == findAnimations(<<>>, data, <<>>)

\* the animations Set that collectAnimations leaves in validation.animations
collectAnimations(n) ==
  LET type == Get(n, K_type).s
      animations == Get(n, K_animations)
  IN
  IF type \in {T_standard, T_legacy}
  THEN IF isArray(animations) THEN CollectFromArray(<<>>, Values(Entries(animations)))
       ELSE <<>>
  ELSE IF type = T_objectAnimations
  THEN IF isArray(animations) THEN CollectNamed(<<>>, Values(Entries(animations)))
       ELSE <<>>
  ELSE IF type = T_complex
  THEN CollectLocations(<<>>, <<animations,
                                Get(n, K_animation),
                                OptGet(Get(n, K_data), K_animations),
                                OptGet(Get(n, K_skeleton), K_animations)>>)
  ELSE extractAnimationsFallback(n)

(***************************************************************************)
(* extractSpineAttachmentRequirements.                                     *)
(* attachmentRequirements : Map<name, Set<context>> is a list of           *)
(*   [name |-> characters, contexts |-> list of characters];               *)
(* skinAttachments : Map<skinName, Map<slotName, Map<attKey, attObj>>> is  *)
(*   a list of [key, slots], slots a list of [key, atts], atts a list of   *)
(*   [k, v]; definedAttachments, nonTextureNames and slotNames are Sets.   *)
(***************************************************************************)
ReqHas(req, n) == \E i \in 1..Len(req) : req[i].name = n

ReqGet(req, n) ==
  IF ReqHas(req, n) THEN req[CHOOSE i \in 1..Len(req) : req[i].name = n].contexts
  ELSE <<>>

addAttachmentRequirement(req, attachmentName, context) ==
  IF ~Truthy(attachmentName) \/ attachmentName = Str(L_null) THEN req
  ELSE LET n == String(attachmentName) IN
       IF trim(n) = <<>> THEN req
       ELSE IF ReqHas(req, n)
       THEN [i \in 1..Len(req) |->
               IF req[i].name = n
               THEN [name |-> n, contexts |-> SetAdd(req[i].contexts, context)]
               ELSE req[i]]
       ELSE Append(req, [name |-> n, contexts |-> <<context>>])

isNonTextureAttachment(attachmentData) ==
  IF ~Truthy(attachmentData) \/ ~TypeofObject(attachmentData) THEN FALSE
  ELSE LET type == toLowerCase(Or(Get(attachmentData, K_type), Str(<<>>)).s) IN
       type \in {L_clipping, L_boundingbox, K_path, L_point, L_vertex}

\* (attachmentData.type || '').toLowerCase() raises a TypeError when type is
\* truthy and not a string
TypeThrows(attachmentData) ==
  /\ Truthy(attachmentData) /\ TypeofObject(attachmentData)
  /\ Truthy(Get(attachmentData, K_type))
  /\ ~TypeofString(Get(attachmentData, K_type))

\* slots.forEach(s => { if (s && s.name) slotNames.add(String(s.name).toLowerCase()) })
RECURSIVE AddSlotNames(_, _)
AddSlotNames(names, vs) ==
  IF vs = <<>> THEN names
  ELSE LET s == Head(vs) IN
       AddSlotNames(
         IF Truthy(s) /\ Truthy(Get(s, K_name))
         THEN SetAdd(names, toLowerCase(String(Get(s, K_name)))) ELSE names,
         Tail(vs))

slotNames(d) ==
  LET slots == Get(d, K_slots) IN
  IF Truthy(slots) /\ (isArray(slots) \/ TypeofObject(slots))
  THEN AddSlotNames(<<>>, Values(Entries(slots)))
  ELSE <<>>

\* Map helpers for skinAttachments
MapHas(m, key) == \E i \in 1..Len(m) : m[i].key = key
MapIdx(m, key) == CHOOSE i \in 1..Len(m) : m[i].key = key

EnsureSkin(sa, skinName) ==
  IF MapHas(sa, skinName) THEN sa ELSE Append(sa, [key |-> skinName, slots |-> <<>>])

EnsureSlot(sa, skinName, slotName) ==
  LET i == MapIdx(sa, skinName) IN
  IF MapHas(sa[i].slots, slotName) THEN sa
  ELSE [sa EXCEPT ![i].slots = Append(@, [key |-> slotName, atts |-> <<>>])]

AttsSet(atts, attKey, attObj) ==
  IF \E i \in 1..Len(atts) : atts[i].k = attKey
  THEN [i \in 1..Len(atts) |-> IF atts[i].k = attKey THEN P(attKey, attObj) ELSE atts[i]]
  ELSE Append(atts, P(attKey, attObj))

SetAtt(sa, skinName, slotName, attKey, attObj) ==
  LET i == MapIdx(sa, skinName)
      j == MapIdx(sa[i].slots, slotName)
  IN [sa EXCEPT ![i].slots[j].atts = AttsSet(@, attKey, attObj)]

\* attachmentData.name || attachmentData.path || attachmentKey
NameOrPathOrKey(attachmentKey, attachmentData) ==
  Or(Or(Get(attachmentData, K_name), Get(attachmentData, K_path)), Str(attachmentKey))

\* lines 450-453
AtlasNameOf(attachmentKey, attachmentData) ==
  IF Truthy(attachmentData) /\ TypeofObject(attachmentData)
  THEN NameOrPathOrKey(attachmentKey, attachmentData)
  ELSE Str(attachmentKey)

\* lines 455-461: a texture declaration, atlasName already resolved
DeclareTexture(acc, skinName, slotName, attachmentKey, attachmentData, atlasName) ==
  [acc EXCEPT
     !.defined = IF Truthy(atlasName) /\ atlasName # Str(attachmentKey)
                 THEN SetAdd(SetAdd(@, Str(attachmentKey)), atlasName)
                 ELSE SetAdd(@, Str(attachmentKey)),
     !.skinAtt = SetAtt(@, skinName, slotName, attachmentKey, Or(attachmentData, Null)),
     !.req = addAttachmentRequirement(@, atlasName,
               L_skinColon \o String(skinName) \o <<".">> \o slotName)]

\* lines 442-462: the body of the innermost forEach
WalkAttachment(acc, skinName, slotName, attachmentKey, attachmentData) ==
  IF isNonTextureAttachment(attachmentData)
  THEN [acc EXCEPT !.nonTex =
          SetAdd(SetAdd(@, toLowerCase(String(NameOrPathOrKey(attachmentKey, attachmentData)))),
                 toLowerCase(attachmentKey))]
  ELSE DeclareTexture(acc, skinName, slotName, attachmentKey, attachmentData,
                      AtlasNameOf(attachmentKey, attachmentData))

\* 1. the skin walk; acc = [req, defined, skinAtt, nonTex]
RECURSIVE WalkAttachments(_, _, _, _)
WalkAttachments(acc, skinName, slotName, es) ==
  IF es = <<>> THEN acc
  ELSE WalkAttachments(WalkAttachment(acc, skinName, slotName, Head(es).k, Head(es).v),
                       skinName, slotName, Tail(es))

RECURSIVE WalkSkinSlots(_, _, _)
WalkSkinSlots(acc, skinName, es) ==
  IF es = <<>> THEN acc
  ELSE LET slotName == Head(es).k
           slotData == Head(es).v
       IN WalkSkinSlots(
            IF ~Truthy(slotData) \/ ~TypeofObject(slotData) THEN acc
            ELSE WalkAttachments(
                   [acc EXCEPT !.skinAtt = EnsureSlot(@, skinName, slotName)],
                   skinName, slotName, Entries(slotData)),
            skinName, Tail(es))

\* skinEntries: [s.name || `skin_${i}`, s] for an array, Object.entries otherwise
skinEntries(skins) ==
  LET es == Entries(skins) IN
  IF isArray(skins)
  THEN [i \in 1..Len(es) |->
          [name |-> Or(OptGet(es[i].v, K_name), Str(L_skinUnderscore \o es[i].k)),
           data |-> es[i].v]]
  ELSE [i \in 1..Len(es) |-> [name |-> Str(es[i].k), data |-> es[i].v]]

RECURSIVE WalkSkins(_, _)
WalkSkins(acc, ses) ==
  IF ses = <<>> THEN acc
  ELSE LET skinName == Head(ses).name
           skinData == Head(ses).data
       IN WalkSkins(
            IF ~Truthy(skinData) \/ ~TypeofObject(skinData) THEN acc
            ELSE WalkSkinSlots(
                   [acc EXCEPT !.skinAtt = EnsureSkin(@, skinName)],
                   skinName, Entries(skinData)),
            Tail(ses))

\* the name a slot's default attachment resolves to (sections 2 and 6)
SlotDefaultName(slot) ==
  LET att == Get(slot, K_attachment) IN
  IF TypeofString(att) THEN att
  ELSE IF Truthy(att) THEN Or(Or(Get(att, K_name), Get(att, K_path)), Null)
  ELSE Null

\* 2. slot default attachments
RECURSIVE WalkSlotDefaults(_, _)
WalkSlotDefaults(req, vs) ==
  IF vs = <<>> THEN req
  ELSE LET slot == Head(vs) IN
       WalkSlotDefaults(
         IF Truthy(slot) /\ Truthy(Get(slot, K_attachment))
         THEN addAttachmentRequirement(req, SlotDefaultName(slot),
                L_slotColon \o String(Or(Get(slot, K_name), Str(L_unknown))) \o L_default)
         ELSE req,
         Tail(vs))

\* 3. animation attachment references
RECURSIVE WalkKeyframes(_, _, _)
WalkKeyframes(req, vs, context) ==
  IF vs = <<>> THEN req
  ELSE LET keyframe == Head(vs)
           attName == IF TypeofString(keyframe) THEN keyframe ELSE Get(keyframe, K_name)
       IN WalkKeyframes(
            IF ~Truthy(keyframe) THEN req
            ELSE IF Get(keyframe, K_name) = Null THEN req
            ELSE IF Truthy(attName) THEN addAttachmentRequirement(req, attName, context)
            ELSE req,
            Tail(vs), context)

RECURSIVE WalkAnimSlots(_, _, _)
WalkAnimSlots(req, animName, es) ==
  IF es = <<>> THEN req
  ELSE LET slotName == Head(es).k
           slotData == Head(es).v
       IN WalkAnimSlots(
            IF ~Truthy(slotData) THEN req
            ELSE IF isArray(Get(slotData, K_attachment))
            THEN WalkKeyframes(req, Values(Entries(Get(slotData, K_attachment))),
                               L_animationColon \o animName \o <<".">> \o slotName)
            ELSE req,
            animName, Tail(es))

RECURSIVE WalkDeformKeys(_, _, _)
WalkDeformKeys(req, es, context) ==
  IF es = <<>> THEN req
  ELSE WalkDeformKeys(addAttachmentRequirement(req, Str(Head(es).k), context),
                      Tail(es), context)

RECURSIVE WalkDeformSlots(_, _, _, _)
WalkDeformSlots(req, animName, skinName, es) ==
  IF es = <<>> THEN req
  ELSE LET slotName == Head(es).k
           slotDeforms == Head(es).v
       IN WalkDeformSlots(
            IF ~Truthy(slotDeforms) THEN req
            ELSE WalkDeformKeys(req, Entries(slotDeforms),
                   L_deformColon \o animName \o <<".">> \o skinName \o <<".">> \o slotName),
            animName, skinName, Tail(es))

RECURSIVE WalkDeformSkins(_, _, _)
WalkDeformSkins(req, animName, es) ==
  IF es = <<>> THEN req
  ELSE LET skinName == Head(es).k
           skinDeforms == Head(es).v
       IN WalkDeformSkins(
            IF ~Truthy(skinDeforms) THEN req
            ELSE WalkDeformSlots(req, animName, skinName, Entries(skinDeforms)),
            animName, Tail(es))

\* animEntries: [a.name || `anim_${i}`, a] for an array, Object.entries otherwise
animEntries(animations) ==
  LET es == Entries(animations) IN
  IF isArray(animations)
  THEN [i \in 1..Len(es) |->
          [name |-> String(Or(OptGet(es[i].v, K_name), Str(L_animUnderscore \o es[i].k))),
           data |-> es[i].v]]
  ELSE [i \in 1..Len(es) |-> [name |-> es[i].k, data |-> es[i].v]]

\* lines 487-500
AnimSlotTracks(req, animName, slots) ==
  IF Truthy(slots) /\ TypeofObject(slots)
  THEN WalkAnimSlots(req, animName, Entries(slots))
  ELSE req

\* lines 503-513
AnimDeformTracks(req, animName, deform) ==
  IF Truthy(deform) /\ TypeofObject(deform)
  THEN WalkDeformSkins(req, animName, Entries(deform))
  ELSE req

\* lines 484-514: the body of animEntries.forEach
WalkAnimation(req, animName, animData) ==
  IF ~Truthy(animData) \/ ~TypeofObject(animData) THEN req
  ELSE AnimDeformTracks(AnimSlotTracks(req, animName, Get(animData, K_slots)),
                        animName, Get(animData, K_deform))

RECURSIVE WalkAnimations(_, _)
WalkAnimations(req, aes) ==
  IF aes = <<>> THEN req
  ELSE WalkAnimations(WalkAnimation(req, Head(aes).name, Head(aes).data), Tail(aes))

\* v.path || v.name || v.image
PathOrNameOrImage(v) == Or(Or(Get(v, K_path), Get(v, K_name)), Get(v, K_image))

\* lines 525-532: the entry [k, v] of an object, declared = v.path || v.name || v.image
DeepScanEntry(acc, k, v, declared) ==
  IF Truthy(v) /\ TypeofObject(v) /\ Truthy(declared)
  THEN [acc EXCEPT
          !.req = addAttachmentRequirement(@, declared, L_declaredColon \o k),
          !.nonTex = IF isNonTextureAttachment(v)
                     THEN SetAdd(SetAdd(@, toLowerCase(String(declared))), toLowerCase(k))
                     ELSE @]
  ELSE acc

\* 4. deepScanForDeclared; acc = [req, defined, skinAtt, nonTex]
RECURSIVE deepScanForDeclared(_, _)
RECURSIVE DeepScanEntries(_, _, _)
DeepScanEntries(acc, es, inArray) ==
  IF es = <<>> THEN acc
  ELSE DeepScanEntries(
         deepScanForDeclared(
           IF inArray THEN acc
           ELSE DeepScanEntry(acc, Head(es).k, Head(es).v, PathOrNameOrImage(Head(es).v)),
           Head(es).v),
         Tail(es), inArray)

deepScanForDeclared(acc, obj) ==
  IF ~Truthy(obj) \/ ~TypeofObject(obj) THEN acc
  ELSE DeepScanEntries(acc, Entries(obj), isArray(obj))

\* 5. the filter of finalAtlasRequirements
KeepRequirement(n, slotNameSet, nonTex) ==
  LET nl == trim(toLowerCase(n)) IN
  /\ n # <<>>
  /\ nl # <<>> /\ nl # L_null
  /\ ~startsWith(nl, L_empty)
  /\ ~SetHas(slotNameSet, nl)
  /\ ~SetHas(nonTex, nl)

RECURSIVE FilterRequirements(_, _, _)
FilterRequirements(req, slotNameSet, nonTex) ==
  IF req = <<>> THEN <<>>
  ELSE IF KeepRequirement(Head(req).name, slotNameSet, nonTex)
       THEN <<Head(req).name>> \o FilterRequirements(Tail(req), slotNameSet, nonTex)
       ELSE FilterRequirements(Tail(req), slotNameSet, nonTex)

\* 6. is `name` declared in a skin (key, lower-cased key or override) ...
DeclaredOverride(attObj) ==
  Or(Or(Get(attObj, K_name), Get(attObj, K_path)), Get(attObj, K_image))

DefinedInSkins(skinAtt, name) ==
  LET nameLower == toLowerCase(name) IN
  \E i \in 1..Len(skinAtt) : \E j \in 1..Len(skinAtt[i].slots) :
    LET attsMap == skinAtt[i].slots[j].atts IN
    \E a \in 1..Len(attsMap) :
      \/ attsMap[a].k = name
      \/ attsMap[a].k = nameLower
      \/ /\ Truthy(attsMap[a].v) /\ TypeofObject(attsMap[a].v)
         /\ Truthy(DeclaredOverride(attsMap[a].v))
         /\ toLowerCase(String(DeclaredOverride(attsMap[a].v))) = nameLower

\* ... or as a slot default
DefinedInSlotDefaults(d, name) ==
  LET slots == Get(d, K_slots)
      nameLower == toLowerCase(name)
  IN /\ Truthy(slots) /\ isArray(slots)
     /\ \E i \in 1..Len(slots.e) :
          LET s == slots.e[i].v IN
          /\ Truthy(s)
          /\ Truthy(SlotDefaultName(s))
          /\ toLowerCase(String(SlotDefaultName(s))) = nameLower

hasAnimContext(contexts) ==
  \E i \in 1..Len(contexts) : startsWith(contexts[i], L_animationColon)

\* lines 583-593: the error of one retained name, if any
ErrorFor(name, defined, contexts) ==
  IF hasAnimContext(contexts) /\ ~defined
  THEN <<[type |-> L_undefinedAttachmentReference,
          attachment |-> name,
          contexts |-> contexts]>>
  ELSE <<>>

RECURSIVE BuildErrors(_, _, _, _)
BuildErrors(names, d, skinAtt, req) ==
  IF names = <<>> THEN <<>>
  ELSE ErrorFor(Head(names),
                DefinedInSkins(skinAtt, Head(names)) \/ DefinedInSlotDefaults(d, Head(names)),
                ReqGet(req, Head(names)))
       \o BuildErrors(Tail(names), d, skinAtt, req)

\* Array.from(definedAttachments).sort(): compared as strings
RECURSIVE SortValueInsert(_, _)
SortValueInsert(sorted, x) ==
  IF sorted = <<>> THEN <<x>>
  ELSE IF StrLess(String(x), String(Head(sorted))) THEN <<x>> \o sorted
  ELSE <<Head(sorted)>> \o SortValueInsert(Tail(sorted), x)

RECURSIVE sortValues(_)
sortValues(xs) ==
  IF xs = <<>> THEN <<>>
  ELSE SortValueInsert(sortValues(SubSeq(xs, 1, Len(xs) - 1)), xs[Len(xs)])

\* skinStructure: Object.fromEntries over skinAttachments
RECURSIVE SlotStructure(_, _)
SlotStructure(o, slots) ==
  IF slots = <<>> THEN o
  ELSE SlotStructure(
         Put(o, Head(slots).key,
             Arr([a \in 1..Len(Head(slots).atts) |-> Str(Head(slots).atts[a].k)])),
         Tail(slots))

RECURSIVE SkinStructure(_, _)
SkinStructure(o, skinAtt) ==
  IF skinAtt = <<>> THEN o
  ELSE SkinStructure(
         Put(o, String(Head(skinAtt).key), SlotStructure(Obj(<<>>), Head(skinAtt).slots)),
         Tail(skinAtt))

\* the places where the extractor dereferences null or calls a string
\* method on a non-string
RECURSIVE ScanThrows(_)
ScanThrows(obj) ==
  /\ Truthy(obj) /\ TypeofObject(obj)
  /\ \E i \in 1..Len(Entries(obj)) :
       LET v == Entries(obj)[i].v IN
       \/ /\ ~isArray(obj) /\ Truthy(v) /\ TypeofObject(v)
          /\ Truthy(DeclaredOverride(v)) /\ TypeThrows(v)
       \/ ScanThrows(v)

SkinWalkThrows(skins) ==
  \E i \in 1..Len(Entries(skins)) :
    LET skinData == Entries(skins)[i].v IN
    \/ isArray(skins) /\ skinData = Null
    \/ /\ Truthy(skinData) /\ TypeofObject(skinData)
       /\ \E j \in 1..Len(Entries(skinData)) :
            LET slotData == Entries(skinData)[j].v IN
            /\ Truthy(slotData) /\ TypeofObject(slotData)
            /\ \E a \in 1..Len(Entries(slotData)) :
                 LET attachmentData == Entries(slotData)[a].v IN
                 \/ TypeThrows(attachmentData)
                 \/ /\ isNonTextureAttachment(attachmentData)
                    /\ ~TypeofString(Or(Or(Get(attachmentData, K_name),
                                           Get(attachmentData, K_path)), Str(<<>>)))

ExtractThrows(d) ==
  \/ Truthy(Get(d, K_skins)) /\ SkinWalkThrows(Get(d, K_skins))
  \/ /\ Truthy(Get(d, K_animations)) /\ isArray(Get(d, K_animations))
     /\ \E i \in 1..Len(Get(d, K_animations).e) : Get(d, K_animations).e[i].v = Null
  \/ ScanThrows(Or(Get(d, K_skins), Obj(<<>>)))

\* lines 388-426: the empty accumulators
EmptyAccumulators == [req |-> <<>>, defined |-> <<>>, skinAtt |-> <<>>, nonTex |-> <<>>]

\* lines 428-465
SkinStage(acc, skins) ==
  IF Truthy(skins) THEN WalkSkins(acc, skinEntries(skins)) ELSE acc

\* lines 468-475
SlotDefaultStage(acc, slots) ==
  IF Truthy(slots) /\ isArray(slots)
  THEN [acc EXCEPT !.req = WalkSlotDefaults(@, Values(Entries(slots)))]
  ELSE acc

\* lines 478-515
AnimationStage(acc, animations) ==
  IF Truthy(animations)
  THEN [acc EXCEPT !.req = WalkAnimations(@, animEntries(animations))]
  ELSE acc

\* lines 388-535: the accumulators after the four scans
Accumulate(d) ==
  deepScanForDeclared(
    AnimationStage(
      SlotDefaultStage(SkinStage(EmptyAccumulators, Get(d, K_skins)), Get(d, K_slots)),
      Get(d, K_animations)),
    Or(Get(d, K_skins), Obj(<<>>)))

\* lines 596-615
BuildReport(acc, finalAtlasRequirements, errors) ==
  [atlasRequirements |-> finalAtlasRequirements,
   definedAttachments |-> sortValues(acc.defined),
   requirementsMap |-> acc.req,
   skinStructure |-> SkinStructure(Obj(<<>>), acc.skinAtt),
   errors |-> errors,
   warnings |-> <<>>,
   stats |-> [totalAttachments |-> Len(acc.req),
              totalSkins |-> Len(acc.skinAtt),
              totalErrors |-> Len(errors),
              totalWarnings |-> 0]]

\* lines 556-594
WithErrors(d, acc, finalAtlasRequirements) ==
  BuildReport(acc, finalAtlasRequirements,
              BuildErrors(finalAtlasRequirements, d, acc.skinAtt, acc.req))

\* lines 541-552
WithRequirements(d, acc) ==
  WithErrors(d, acc, sort(FilterRequirements(acc.req, slotNames(d), acc.nonTex)))

extractSpineAttachmentRequirements(d) == WithRequirements(d, Accumulate(d))

(***************************************************************************)
(* The inputs: skeleton documents and atlas descriptors.                   *)
(* A document is assembled from one choice per top-level field.            *)
(***************************************************************************)
N_a == <<"a">>
N_A == <<"A">>
N_aSpace == <<"a", " ">>
N_b == <<"b">>
N_B == <<"B">>
N_s == <<"s">>
N_d == <<"d">>
N_e == <<"e">>
N_r == <<"r">>
N_w == <<"w">>
N_q == <<"q">>
N_x == <<"x">>
N_p == <<"p">>
N_alt == <<"a","l","t">>
N_s0 == <<"s","0">>
N_attachments == <<"a","t","t","a","c","h","m","e","n","t","s">>
N_Clipping == <<"C","l","i","p","p","i","n","g">>

EmptyObj == Obj(<<>>)

\* a skin-set in mapping form with one skin, one slot, one declaration
OneSkin(skinName, slotName, key, decl) ==
  Obj(<<P(skinName, Obj(<<P(slotName, Obj(<<P(key, decl)>>))>>))>>)

\* a skin-set in array form: [{name: skinName, slotName: {key: decl}}]
OneSkinArray(skinName, slotName, key, decl) ==
  Arr(<<Obj(<<P(K_name, Str(skinName)), P(slotName, Obj(<<P(key, decl)>>))>>)>>)

\* an animation body with one slot track of attachment keyframes
SlotTrack(slotName, keyframes) ==
  <<P(K_slots, Obj(<<P(slotName, Obj(<<P(K_attachment, Arr(keyframes))>>))>>))>>

Keyframe(n) == Obj(<<P(K_name, n)>>)

SkeletonChoices == {Undef, EmptyObj}

BonesChoices == {Undef, Arr(<<>>)}

SlotsChoices ==
  { Undef,
    Arr(<<Obj(<<P(K_name, Str(N_s))>>)>>),
    Arr(<<Obj(<<P(K_name, Str(N_b))>>)>>),
    Arr(<<Obj(<<P(K_name, Str(N_a)), P(K_attachment, Str(N_a))>>)>>),
    Arr(<<Obj(<<P(K_name, Str(N_aSpace)), P(K_attachment, Str(N_aSpace))>>)>>),
    Arr(<<Obj(<<P(K_name, Str(N_s)), P(K_attachment, Str(N_B))>>)>>),
    Obj(<<P(N_s0, Obj(<<P(K_name, Str(N_A)), P(K_attachment, Str(N_b))>>))>>) }

SkinsChoices ==
  { Undef,
    EmptyObj,
    OneSkin(N_d, N_s, N_a, EmptyObj),
    OneSkin(N_d, N_s, N_A, EmptyObj),
    OneSkin(N_d, N_s, N_a, Obj(<<P(K_name, Str(N_b))>>)),
    OneSkin(N_d, N_s, N_a, Obj(<<P(K_image, Str(N_b))>>)),
    OneSkin(N_d, N_s, N_a, Obj(<<P(K_type, Str(L_clipping))>>)),
    OneSkin(N_d, N_s, N_aSpace, Obj(<<P(K_type, Str(N_Clipping))>>)),
    OneSkinArray(N_alt, N_s, N_a, Obj(<<P(K_type, Str(L_clipping))>>)),
    OneSkinArray(N_alt, N_s, N_a, EmptyObj),
    Obj(<<P(N_d, Obj(<<P(N_s, Obj(<<P(N_a, EmptyObj)>>))>>)),
          P(N_e, Obj(<<P(N_s, Obj(<<P(N_b, Obj(<<P(K_type, Str(K_path)),
                                                  P(K_name, Str(N_a))>>))>>))>>))>>),
    Arr(<<Obj(<<P(K_name, Str(N_d)),
                P(N_attachments,
                  Obj(<<P(N_s, Obj(<<P(N_a, Obj(<<P(K_type, Str(L_clipping))>>))>>))>>))>>)>>),
    Arr(<<Null>>) }

AnimationsChoices ==
  { Undef,
    Arr(<<>>),
    Arr(<<Str(N_w)>>),
    Arr(<<Obj(<<P(K_name, Str(N_w))>> \o SlotTrack(N_s, <<Keyframe(Str(N_a))>>))>>),
    Arr(<<Obj(<<P(K_name, Str(N_w))>> \o SlotTrack(N_s, <<Keyframe(Str(N_A))>>))>>),
    Arr(<<Obj(<<P(K_name, Str(N_w))>> \o SlotTrack(N_s, <<Keyframe(Str(N_aSpace))>>))>>),
    Arr(<<Obj(<<P(K_name, Str(N_w))>>
              \o SlotTrack(N_s, <<Keyframe(Arr(<<Str(L_null)>>))>>))>>),
    Obj(<<P(N_r, Obj(SlotTrack(N_s, <<Keyframe(Str(N_b)), Keyframe(Null)>>)))>>),
    Obj(<<P(N_r, Obj(<<P(K_deform,
            Obj(<<P(N_d, Obj(<<P(N_s, Obj(<<P(N_a, EmptyObj)>>))>>))>>))>>))>>),
    Obj(<<P(N_r, Null)>>),
    Obj(<<P(N_r, Obj(<<P(K_name, Str(<<>>)),
                       P(K_deform,
                         Obj(<<P(N_d, Obj(<<P(N_s, Obj(<<P(N_b, EmptyObj)>>))>>))>>))>>))>>),
    Obj(<<P(N_r, Obj(<<P(K_name, Str(N_q))>>
                     \o SlotTrack(N_s, <<Keyframe(Str(L_empty))>>)))>>),
    Arr(<<Null>>),
    Arr(<<Obj(<<P(K_animation, Str(N_q))>> \o SlotTrack(N_s, <<Keyframe(Str(N_e))>>))>>),
    Str(N_x),
    Num(<<"5">>) }

Field(key, val) == IF val = Undef THEN <<>> ELSE <<P(key, val)>>

Documents ==
  { Obj(Field(K_skeleton, sk) \o Field(K_bones, bo) \o Field(K_slots, sl)
        \o Field(K_skins, skn) \o Field(K_animations, an)) :
      sk \in SkeletonChoices, bo \in BonesChoices, sl \in SlotsChoices,
      skn \in SkinsChoices, an \in AnimationsChoices }

\* JSON values that are not a mapping
NonMappingValues == {Null, Num(<<"5">>), Str(N_x), Arr(<<>>)}

\* the text of the JSON file: text that JSON.parse rejects, or the text of a
\* JSON value
JsonTexts ==
  {[ok |-> FALSE, value |-> Undef]}
  \cup {[ok |-> TRUE, value |-> d] : d \in Documents \cup NonMappingValues}

\* an atlas descriptor: the region names its text declares, or a text that
\* TextureAtlas fails to parse
\* an atlas descriptor is its region names and whether TextureAtlas parses
\* it; the regions of one that does not parse are those written in its text
Descriptors ==
  { [ok |-> FALSE, regions |-> <<N_b>>],
    [ok |-> TRUE, regions |-> <<N_a>>],
    [ok |-> TRUE, regions |-> <<N_A, N_b>>] }

RECURSIVE SeqsOfLen(_, _)
SeqsOfLen(S, n) ==
  IF n = 0 THEN {<<>>}
  ELSE {Append(q, x) : q \in SeqsOfLen(S, n - 1), x \in S}

AtlasSelections == UNION {SeqsOfLen(Descriptors, n) : n \in 1..MaxAtlases}

(***************************************************************************)
(* validateSpineAssets                                                     *)
(***************************************************************************)
\* an index that also takes the regions of a descriptor that does not parse
RECURSIVE collectRegions_keepingFailed(_, _)
collectRegions_keepingFailed(regions, contents) ==
  IF contents = <<>> THEN regions
  ELSE collectRegions_keepingFailed(
         regions \cup {toLowerCase(Head(contents).regions[i]) :
                         i \in 1..Len(Head(contents).regions)},
         Tail(contents))

\* lines 154-169: the regions of every descriptor that parses, lower-cased
RECURSIVE collectRegions(_, _)
collectRegions(regions, contents) ==
  IF contents = <<>> THEN regions
  ELSE collectRegions(
         IF Head(contents).ok
         THEN regions \cup {toLowerCase(Head(contents).regions[i]) :
                              i \in 1..Len(Head(contents).regions)}
         ELSE regions,
         Tail(contents))

\* lines 203-206: the attachments of `entries` that the regions do not hold
RECURSIVE missingOf(_, _)
missingOf(entries, regions) ==
  IF entries = <<>> THEN <<>>
  ELSE IF Truthy(Head(entries)) /\ toLowerCase(String(Head(entries))) \notin regions
       THEN <<Head(entries)>> \o missingOf(Tail(entries), regions)
       ELSE missingOf(Tail(entries), regions)

RECURSIVE TruthyOf(_)
TruthyOf(entries) ==
  IF entries = <<>> THEN <<>>
  ELSE IF Truthy(Head(entries)) THEN SetAdd(TruthyOf(Tail(entries)), Head(entries))
       ELSE TruthyOf(Tail(entries))

\* lines 195-211: validation.skins from the report's skinStructure
buildSkins(reportSkins, regions) ==
  [i \in 1..Len(Entries(reportSkins)) |->
     LET skinName == Entries(reportSkins)[i].k
         entries == IF isArray(Get(reportSkins, skinName))
                    THEN Values(Entries(Get(reportSkins, skinName)))
                    ELSE <<>>
     IN [name |-> skinName,
         attachments |-> TruthyOf(entries),
         missing |-> missingOf(entries, regions),
         total |-> Len(entries)]]

\* lines 215-220 with the requirement compared as written
RECURSIVE missingAttachments_caseSensitive(_, _)
missingAttachments_caseSensitive(atlasRequirements, regions) ==
  IF atlasRequirements = <<>> THEN <<>>
  ELSE LET att == Head(atlasRequirements)
           rest == missingAttachments_caseSensitive(Tail(atlasRequirements), regions)
       IN IF att # <<>> /\ att \notin regions
          THEN <<[slot |-> <<>>, attachment |-> att]>> \o rest
          ELSE rest

\* lines 215-220
RECURSIVE missingAttachments(_, _)
missingAttachments(atlasRequirements, regions) ==
  IF atlasRequirements = <<>> THEN <<>>
  ELSE LET att == Head(atlasRequirements)
           rest == missingAttachments(Tail(atlasRequirements), regions)
       IN IF att # <<>> /\ toLowerCase(att) \notin regions
          THEN <<[slot |-> <<>>, attachment |-> att]>> \o rest
          ELSE rest

\* the validation object at line 224
buildValidation(n, report, regions) ==
  [type |-> Get(n, K_type),
   totalAttachments |-> report.stats.totalAttachments,
   missingAttachments |-> missingAttachments(report.atlasRequirements, regions),
   skins |-> buildSkins(report.skinStructure, regions),
   animations |-> collectAnimations(n),
   warnings |-> report.warnings,
   definedAttachments |-> report.definedAttachments,
   requirementsMap |-> report.requirementsMap,
   atlasRequirements |-> report.atlasRequirements,
   errors |-> report.errors]

\* line 235: Object.keys(spineData) raises a TypeError for null
normalizeThrows(d) == d.t \in {"null", "undef"}

Init ==
  /\ pc = "idle"
  /\ spineData = Undef
  /\ normalizedData = Undef
  /\ atlasContents = <<>>
  /\ allRegions = {}
  /\ attachmentReport = <<>>
  /\ validation = <<>>
  /\ validationResults = <<>>
  /\ raised = "none"
  \* line 16: no file is selected; the load button is as updateLoadButton
  \* leaves it for no files, the re-validate button as line 106 leaves it
  /\ files = [json |-> <<>>, atlases |-> <<>>, images |-> <<>>]
  /\ runs = <<>>
  /\ loadDisabled = TRUE
  /\ revalidateShown = FALSE
  /\ revalidateDisabled = FALSE
  \* no call of checkAndLoadSpine has been made
  /\ triggers = <<>>

\* lines 102-110: a click starts a run, which awaits the JSON text
StartValidation ==
  /\ pc = "idle"
  /\ pc' = "readJson"
  /\ UNCHANGED <<spineData, normalizedData, atlasContents, allRegions,
                 attachmentReport, validation, validationResults, raised>>
  /\ UNCHANGED <<pageVars, loaderVars>>

\* lines 110-129: the text arrives, is parsed and normalized, and the atlas
\* reads are started; an exception leaves the run through the catch of
\* line 226
\* line 120 for a normalizeSpineData that tags the parsed document itself
Normalize_taggingTheDocument(d) ==
  IF normalizeThrows(d)
  THEN /\ spineData' = d
       /\ raised' = "normalize"
       /\ pc' = "failed"
       /\ UNCHANGED normalizedData
  ELSE /\ spineData' = Put(d, K_type, Get(normalizeSpineData(d), K_type))
       /\ normalizedData' = normalizeSpineData(d)
       /\ pc' = "readAtlases"
       /\ UNCHANGED raised

\* lines 113 and 120: spineData is the parsed value, normalizedData the view
\* normalizeSpineData returns for it
Normalize(d) ==
  /\ spineData' = d
  /\ IF normalizeThrows(d)
     THEN /\ raised' = "normalize"
          /\ pc' = "failed"
          /\ UNCHANGED normalizedData
     ELSE /\ normalizedData' = normalizeSpineData(d)
          /\ pc' = "readAtlases"
          /\ UNCHANGED raised

JsonRead ==
  /\ pc = "readJson"
  /\ \E text \in JsonTexts :
       IF ~text.ok
       THEN /\ raised' = "parse"
            /\ pc' = "failed"
            /\ UNCHANGED <<spineData, normalizedData>>
       ELSE Normalize(text.value)
  /\ UNCHANGED <<atlasContents, allRegions, attachmentReport, validation,
                 validationResults>>
  /\ UNCHANGED <<pageVars, loaderVars>>

\* lines 131-229: all atlas texts have arrived; the rest of the run is
\* synchronous
\* lines 224-229: the run ends storing its report, or in the catch
Finish(threw, report, v) ==
  IF threw
  THEN /\ raised' = "extract"
       /\ pc' = "failed"
       /\ UNCHANGED <<attachmentReport, validation, validationResults>>
  ELSE /\ attachmentReport' = <<report>>
       /\ validation' = <<v>>
       /\ validationResults' = <<v>>
       /\ pc' = "done"
       /\ UNCHANGED raised

\* lines 154-224 for the region set of this run
CrossReference(threw, report, regions) ==
  /\ allRegions' = regions
  /\ Finish(threw, report, buildValidation(normalizedData, report, regions))

\* lines 125-229 for every selection of atlas descriptors
ValidateWith(threw, report) ==
  \E contents \in AtlasSelections :
    /\ atlasContents' = contents
    /\ CrossReference(threw, report, collectRegions({}, contents))

AtlasesRead ==
  /\ pc = "readAtlases"
  /\ ValidateWith(ExtractThrows(normalizedData),
                  extractSpineAttachmentRequirements(normalizedData))
  /\ UNCHANGED <<spineData, normalizedData>>
  /\ UNCHANGED <<pageVars, loaderVars>>

Next == StartValidation \/ JsonRead \/ AtlasesRead

Spec == Init /\ [][Next]_vars

(***************************************************************************)
(* The page around validateSpineAssets: the file selectors, the drop zone  *)
(* and the load and re-validate buttons, each click starting a run of its  *)
(* own that shares files and validationResults with the others.            *)
(* runs is the list of the requests started so far:                        *)
(*   [button, pc, started, text, atlases, contents, images,                *)
(*    normalizedData, allRegions, validation, ended]                       *)
(* started is the selection when the run began; text, atlases and images   *)
(* are what the run read of files at lines 110, 126 and 133; contents      *)
(* holds, per atlas file, its descriptor once readFileAsText has resolved. *)
(***************************************************************************)
\* documents with different reports
RunDocuments ==
  { Obj(<<P(K_skeleton, EmptyObj),
          P(K_skins, Obj(<<P(N_d, Obj(<<P(N_s, Obj(<<P(N_b, EmptyObj), P(N_a, EmptyObj)>>))>>))>>)),
          P(K_animations,
            Arr(<<Obj(<<P(K_name, Str(N_w))>>
                      \o SlotTrack(N_s, <<Keyframe(Str(N_x)), Keyframe(Str(N_e))>>))>>))>>),
    Obj(<<P(K_slots, Arr(<<Obj(<<P(K_name, Str(N_s)), P(K_attachment, Str(N_B))>>)>>))>>) }

\* the texts the selected JSON file may hold
RunTexts ==
  {[ok |-> FALSE, value |-> Undef], [ok |-> TRUE, value |-> Null]}
  \cup {[ok |-> TRUE, value |-> d] : d \in RunDocuments}

\* what each selector may hold: no file or a file, no atlas or two, no image
\* or one
RunJsonSelections == {<<>>} \cup {<<text>> : text \in RunTexts}

RunAtlasSelections ==
  {<<>>, <<[ok |-> TRUE, regions |-> <<N_a>>], [ok |-> TRUE, regions |-> <<N_b>>]>>}

RunImageSelections == {<<>>, <<N_p>>}

\* line 55
hasAllFiles(f) == f.json # <<>> /\ Len(f.atlases) > 0 /\ Len(f.images) > 0

\* lines 54-59
updateLoadButton(f) == loadDisabled' = ~hasAllFiles(f)

\* the selection becomes f and the load button follows it
Selected(f) ==
  /\ files' = f
  /\ updateLoadButton(f)
  /\ UNCHANGED <<runs, revalidateShown, revalidateDisabled, validationResults>>
  /\ UNCHANGED <<runVars, loaderVars>>

\* lines 41-44
SelectJson ==
  \E json \in RunJsonSelections : Selected([files EXCEPT !.json = json])

\* lines 45-48
SelectAtlases ==
  \E atlases \in RunAtlasSelections : Selected([files EXCEPT !.atlases = atlases])

\* lines 49-52
SelectImages ==
  \E images \in RunImageSelections : Selected([files EXCEPT !.images = images])

\* lines 61-70: files are dropped on the page
handleFiles ==
  \E json \in RunJsonSelections : \E atlases \in RunAtlasSelections :
    \E images \in RunImageSelections :
      Selected([json |-> json, atlases |-> atlases, images |-> images])

\* lines 102-110: validateSpineAssets starts and asks for the text of the
\* file selected now
NewRun(button) ==
  [button |-> button, pc |-> "readJson", started |-> files, text |-> files.json,
   atlases |-> <<>>, contents |-> <<>>, images |-> <<>>,
   normalizedData |-> Undef, allRegions |-> {}, validation |-> <<>>, ended |-> FALSE]

\* lines 848-859
ClickLoad ==
  /\ ~loadDisabled
  /\ Len(runs) < MaxRuns
  /\ loadDisabled' = TRUE
  /\ revalidateShown' = FALSE
  /\ runs' = Append(runs, NewRun("load"))
  /\ UNCHANGED <<files, revalidateDisabled, validationResults>>
  /\ UNCHANGED <<runVars, loaderVars>>

\* lines 892-896
ClickRevalidate ==
  /\ revalidateShown /\ ~revalidateDisabled
  /\ Len(runs) < MaxRuns
  /\ revalidateDisabled' = TRUE
  /\ revalidateShown' = FALSE
  /\ runs' = Append(runs, NewRun("revalidate"))
  /\ UNCHANGED <<files, loadDisabled, validationResults>>
  /\ UNCHANGED <<runVars, loaderVars>>

\* the finally blocks of the click handlers, lines 881-889 and 903-906
HandlerEnds(button) ==
  IF button = "load"
  THEN loadDisabled' = FALSE /\ UNCHANGED revalidateDisabled
  ELSE revalidateDisabled' = FALSE /\ UNCHANGED loadDisabled

\* lines 226-229 and the catch of the handler: the run throws, and
\* validationResults is left as it was
RunFails(r) ==
  /\ runs' = [runs EXCEPT ![r].pc = "failed", ![r].ended = TRUE]
  /\ HandlerEnds(runs[r].button)
  /\ UNCHANGED <<files, revalidateShown, validationResults>>

\* lines 110-129 of run r; readFileAsText rejects when no file is selected,
\* and the atlas files asked for are those selected now
RunJsonRead(r) ==
  /\ runs[r].pc = "readJson"
  /\ IF runs[r].text = <<>>
     THEN RunFails(r)
     ELSE IF ~runs[r].text[1].ok \/ normalizeThrows(runs[r].text[1].value)
     THEN RunFails(r)
     ELSE /\ runs' = [runs EXCEPT
                       ![r].pc = "readAtlases",
                       ![r].normalizedData = normalizeSpineData(runs[r].text[1].value),
                       ![r].atlases = files.atlases,
                       ![r].contents = [i \in 1..Len(files.atlases) |-> <<>>]]
          /\ UNCHANGED <<files, loadDisabled, revalidateShown, revalidateDisabled,
                         validationResults>>
  /\ UNCHANGED <<runVars, loaderVars>>

\* lines 127 and 1159-1170: the read of the i-th atlas file of run r
\* resolves, in any order
RunAtlasRead(r, i) ==
  /\ runs[r].pc = "readAtlases"
  /\ i \in 1..Len(runs[r].atlases)
  /\ runs[r].contents[i] = <<>>
  /\ runs' = [runs EXCEPT ![r].contents[i] = <<runs[r].atlases[i]>>]
  /\ UNCHANGED <<files, loadDisabled, revalidateShown, revalidateDisabled,
                 validationResults>>
  /\ UNCHANGED <<runVars, loaderVars>>

\* a run that goes on as soon as one of its atlas reads has resolved
AllAtlasesRead_anyRead(run) ==
  \/ run.atlases = <<>>
  \/ \E i \in 1..Len(run.atlases) : run.contents[i] # <<>>

\* line 125: Promise.all resolves when every read has
AllAtlasesRead(run) ==
  \A i \in 1..Len(run.atlases) : run.contents[i] # <<>>

\* the descriptors read so far, in the order of the selection
ReadContents(run) ==
  LET read == SelectSeq(run.contents, LAMBDA c : c # <<>>)
  IN [i \in 1..Len(read) |-> read[i][1]]

\* a run that adds its missing attachments to those of the current report
\* instead of building its report from its own inputs alone
RunSucceeds_extendingCurrentReport(r, regions, v) ==
  LET merged == IF validationResults = <<>> THEN v
                ELSE [v EXCEPT !.missingAttachments =
                                  validationResults[1].missingAttachments \o @]
  IN /\ runs' = [runs EXCEPT ![r].pc = "done", ![r].allRegions = regions,
                             ![r].images = files.images,
                             ![r].validation = <<merged>>,
                             ![r].ended = (runs[r].button = "revalidate")]
     /\ validationResults' = <<merged>>
     /\ revalidateShown' = TRUE
     /\ IF runs[r].button = "revalidate"
        THEN revalidateDisabled' = FALSE
        ELSE UNCHANGED revalidateDisabled
     /\ UNCHANGED <<files, loadDisabled>>

\* lines 131-135 (the images selected now), 224-225,
\* displayValidationResults (line 666) and, for the re-validate handler, its
\* finally block; the load handler goes on to load
RunSucceeds(r, regions, v) ==
  /\ runs' = [runs EXCEPT ![r].pc = "done", ![r].allRegions = regions,
                          ![r].images = files.images,
                          ![r].validation = <<v>>,
                          ![r].ended = (runs[r].button = "revalidate")]
  /\ validationResults' = <<v>>
  /\ revalidateShown' = TRUE
  /\ IF runs[r].button = "revalidate"
     THEN revalidateDisabled' = FALSE
     ELSE UNCHANGED revalidateDisabled
  /\ UNCHANGED <<files, loadDisabled>>

\* lines 173-225 of run r for its region set
RunCrossReference(r, regions) ==
  RunSucceeds(r, regions,
              buildValidation(runs[r].normalizedData,
                              extractSpineAttachmentRequirements(runs[r].normalizedData),
                              regions))

\* lines 125-225 of run r: once every atlas read has resolved, the rest of
\* the run is one synchronous block
RunAtlasesRead(r) ==
  /\ runs[r].pc = "readAtlases"
  /\ AllAtlasesRead(runs[r])
  /\ IF ExtractThrows(runs[r].normalizedData)
     THEN RunFails(r)
     ELSE RunCrossReference(r, collectRegions({}, ReadContents(runs[r])))
  /\ UNCHANGED <<runVars, loaderVars>>

\* lines 861-889: the load handler ends after loading, or at once when the
\* user declines to continue
LoadEnds(r) ==
  /\ runs[r].button = "load" /\ runs[r].pc = "done" /\ ~runs[r].ended
  /\ runs' = [runs EXCEPT ![r].ended = TRUE]
  /\ loadDisabled' = FALSE
  /\ UNCHANGED <<files, revalidateShown, revalidateDisabled, validationResults>>
  /\ UNCHANGED <<runVars, loaderVars>>

NextRuns ==
  \/ SelectJson
  \/ SelectAtlases
  \/ SelectImages
  \/ handleFiles
  \/ ClickLoad
  \/ ClickRevalidate
  \/ \E r \in 1..Len(runs) : RunJsonRead(r)
  \/ \E r \in 1..Len(runs) : \E i \in 1..MaxAtlases : RunAtlasRead(r, i)
  \/ \E r \in 1..Len(runs) : RunAtlasesRead(r)
  \/ \E r \in 1..Len(runs) : LoadEnds(r)

SpecRuns == Init /\ [][NextRuns]_vars

(***************************************************************************)
(* The callback-based loader of src/unnamed/part_000: every change of the *)
(* selection calls checkAndLoadSpine, which reads the JSON file and then   *)
(* the atlas files through FileReader callbacks.  files is the selection   *)
(* of this page as it is of the other.  triggers is the list of the calls  *)
(* of checkAndLoadSpine that started reading:                              *)
(*   [selection, pc, asked, atlasContents, loaded, calls]                  *)
(* selection is files at the call, asked the atlas files the readers were  *)
(* started for, atlasContents the array of the onload closure (<<>> where  *)
(* nothing is stored yet), calls the invocations of loadSpine.  A file is  *)
(* modelled by its text.                                                   *)
(***************************************************************************)
LoaderJsonSelections == {<<>>, <<N_x>>}

LoaderAtlasSelections == {<<>>, <<N_e>>, <<N_a, N_b>>}

LoaderImageSelections == {<<>>, <<N_p>>}

\* part_000 lines 56-58 and 76: the JSON reader of a call that finds all
\* three kinds of file selected
NewTrigger(f) ==
  [selection |-> f, pc |-> "readJson", asked |-> <<>>, atlasContents |-> <<>>,
   loaded |-> 0, calls |-> <<>>]

\* part_000 lines 56-79, up to the start of the JSON read
checkAndLoadSpine(f) ==
  IF f.json # <<>> /\ Len(f.atlases) > 0 /\ Len(f.images) > 0
  THEN /\ Len(triggers) < MaxTriggers
       /\ triggers' = Append(triggers, NewTrigger(f))
  ELSE UNCHANGED triggers

\* the selection becomes f and checkAndLoadSpine is called
LoaderSelected(f) ==
  /\ files' = f
  /\ checkAndLoadSpine(f)
  /\ UNCHANGED <<runs, loadDisabled, revalidateShown, revalidateDisabled,
                 validationResults>>
  /\ UNCHANGED runVars

\* part_000 lines 31-34
JsonInputChange ==
  \E json \in LoaderJsonSelections : LoaderSelected([files EXCEPT !.json = json])

\* part_000 lines 35-38
AtlasInputChange ==
  \E atlases \in LoaderAtlasSelections :
    LoaderSelected([files EXCEPT !.atlases = atlases])

\* part_000 lines 39-42
PngInputChange ==
  \E images \in LoaderImageSelections :
    LoaderSelected([files EXCEPT !.images = images])

\* part_000 lines 44-54
FilesDropped ==
  \E json \in LoaderJsonSelections : \E atlases \in LoaderAtlasSelections :
    \E images \in LoaderImageSelections :
      LoaderSelected([json |-> json, atlases |-> atlases, images |-> images])

\* part_000 lines 59-74: readerJson.onload of trigger t starts a reader for
\* each atlas file selected now
JsonLoaded(t) ==
  /\ triggers[t].pc = "readJson"
  /\ triggers' = [triggers EXCEPT
                    ![t].pc = "readAtlases",
                    ![t].asked = files.atlases,
                    ![t].atlasContents = [i \in 1..Len(files.atlases) |-> <<>>]]
  /\ UNCHANGED pageVars
  /\ UNCHANGED <<runVars, validationResults>>

\* part_000 line 68: loaded === files.atlases.length
loadedAll(loaded) == loaded = Len(files.atlases)

\* part_000 lines 65-71: readerAtlas.onload of the i-th reader of trigger t
AtlasLoaded(t, i) ==
  /\ triggers[t].pc = "readAtlases"
  /\ i \in 1..Len(triggers[t].asked)
  /\ triggers[t].atlasContents[i] = <<>>
  /\ LET contents == [triggers[t].atlasContents EXCEPT ![i] = <<triggers[t].asked[i]>>]
         loaded == triggers[t].loaded + 1
     IN triggers' = [triggers EXCEPT
                       ![t].atlasContents = contents,
                       ![t].loaded = loaded,
                       ![t].calls =
                         IF loadedAll(loaded)
                         THEN Append(@, [jsonContent |-> triggers[t].selection.json,
                                         atlasContents |-> contents,
                                         images |-> files.images])
                         ELSE @]
  /\ UNCHANGED pageVars
  /\ UNCHANGED <<runVars, validationResults>>

NextLoader ==
  \/ JsonInputChange
  \/ AtlasInputChange
  \/ PngInputChange
  \/ FilesDropped
  \/ \E t \in 1..Len(triggers) : JsonLoaded(t)
  \/ \E t \in 1..Len(triggers) : \E i \in 1..MaxAtlases : AtlasLoaded(t, i)

SpecLoader == Init /\ [][NextLoader]_vars

(***************************************************************************)
(* What a document declares, read off the document itself (section 3 of    *)
(* the specification): used to state the properties below.                 *)
(***************************************************************************)
Range(q) == {q[i] : i \in 1..Len(q)}

NonTextureTypes == {L_clipping, L_boundingbox, K_path, L_point, L_vertex}

FiveVariants == {T_standard, T_legacy, T_objectAnimations, T_complex, T_unknown}

\* the animations of the document: [name, data]
DocAnimations(d) ==
  LET a == Get(d, K_animations) IN
  IF a.t = "obj" THEN {[name |-> e.k, data |-> e.v] : e \in Range(a.e)}
  ELSE IF a.t = "arr"
  THEN {[name |-> e.v.s, data |-> e.v] : e \in {x \in Range(a.e) : x.v.t = "str"}}
       \cup {[name |-> Get(e.v, K_name).s, data |-> e.v] :
               e \in {x \in Range(a.e) : x.v.t = "obj" /\ Get(x.v, K_name).t = "str"}}
  ELSE {}

DocAnimationNames(d) == {a.name : a \in DocAnimations(d)}

\* names referenced by slots[slotName].attachment keyframes
DocTrackRefs(d) ==
  UNION {
    UNION {
      {Get(kf.v, K_name).s :
         kf \in {x \in Range(Entries(Get(sl.v, K_attachment))) :
                   /\ Get(sl.v, K_attachment).t = "arr"
                   /\ x.v.t = "obj" /\ Get(x.v, K_name).t = "str"}} :
      sl \in {x \in Range(Entries(Get(a.data, K_slots))) :
                Get(a.data, K_slots).t = "obj" /\ x.v.t = "obj"}} :
    a \in {x \in DocAnimations(d) : x.data.t = "obj"}}

\* names referenced by deform[skinName][slotName]
DocDeformRefs(d) ==
  UNION {
    UNION {
      UNION {
        {att.k : att \in Range(Entries(sl.v))} :
        sl \in {x \in Range(Entries(sk.v)) : sk.v.t = "obj" /\ x.v.t = "obj"}} :
      sk \in {x \in Range(Entries(Get(a.data, K_deform))) :
                Get(a.data, K_deform).t = "obj"}} :
    a \in {x \in DocAnimations(d) : x.data.t = "obj"}}

\* the skins of the document: [name, data]
DocSkins(d) ==
  LET sk == Get(d, K_skins) IN
  IF sk.t = "obj" THEN {[name |-> e.k, data |-> e.v] : e \in {x \in Range(sk.e) : x.v.t = "obj"}}
  ELSE IF sk.t = "arr"
  THEN {[name |-> Get(e.v, K_name).s, data |-> e.v] :
          e \in {x \in Range(sk.e) : x.v.t = "obj"}}
  ELSE {}

\* the attachment declarations of a skin: [key, decl]
SkinDecls(skin) ==
  UNION {
    {[key |-> att.k, decl |-> att.v] : att \in Range(Entries(sl.v))} :
    sl \in {x \in Range(Entries(skin.data)) : x.v.t = "obj"}}

DocDecls(d) == UNION {SkinDecls(skin) : skin \in DocSkins(d)}

\* the name / path / image overrides a declaration carries
Overrides(decl) ==
  {Get(decl, k).s : k \in {f \in {K_name, K_path, K_image} : Get(decl, f).t = "str"}}

\* the resolved name: the name or path override, or else the key
Resolved(dc) ==
  IF Get(dc.decl, K_name).t = "str" /\ Get(dc.decl, K_name).s # <<>>
  THEN Get(dc.decl, K_name).s
  ELSE IF Get(dc.decl, K_path).t = "str" /\ Get(dc.decl, K_path).s # <<>>
  THEN Get(dc.decl, K_path).s
  ELSE dc.key

IsNonTextureDecl(decl) ==
  /\ decl.t = "obj"
  /\ Get(decl, K_type).t = "str"
  /\ toLowerCase(Get(decl, K_type).s) \in NonTextureTypes

\* the slots of the document, array-of-objects or mapping-of-objects
DocSlots(d) ==
  LET sl == Get(d, K_slots) IN
  IF sl.t \in {"obj", "arr"} THEN {e.v : e \in {x \in Range(sl.e) : x.v.t = "obj"}}
  ELSE {}

DocSlotNames(d) ==
  {Get(sl, K_name).s : sl \in {x \in DocSlots(d) : Get(x, K_name).t = "str"}}

DocSlotDefaults(d) ==
  {Get(sl, K_attachment).s : sl \in {x \in DocSlots(d) : Get(x, K_attachment).t = "str"}}
  \cup UNION {Overrides(Get(sl, K_attachment)) :
                sl \in {x \in DocSlots(d) : Get(x, K_attachment).t = "obj"}}

\* every name a skin or a slot default declares
DocDeclaredNames(d) ==
  {dc.key : dc \in DocDecls(d)}
  \cup UNION {Overrides(dc.decl) : dc \in DocDecls(d)}
  \cup DocSlotDefaults(d)

\* the region names of the descriptors that parsed, as written in them
ParsedRegionNames ==
  UNION {Range(atlasContents[i].regions) :
           i \in {j \in 1..Len(atlasContents) : atlasContents[j].ok}}

Report == validation[1]

(***************************************************************************)
(* Properties.                                                             *)
(***************************************************************************)
SkinStructureKeys(skin) ==
  UNION {{att.v.s : att \in Range(Entries(slot.v))} : slot \in Range(Entries(skin))}

\* C1: for every skin of skinStructure, validation.skins[skin].missing holds
\* exactly the attachment keys declared in that skin whose lower-cased form
\* is absent from the region index, and total counts the declared keys.
C1_PerSkinMissing ==
  pc = "done" =>
    \A sk \in Range(Entries(attachmentReport[1].skinStructure)) :
      \E i \in 1..Len(Report.skins) :
        /\ Report.skins[i].name = sk.k
        /\ {m.s : m \in Range(Report.skins[i].missing)}
             = {k \in SkinStructureKeys(sk.v) : toLowerCase(k) \notin allRegions}
        /\ Report.skins[i].total = Cardinality(SkinStructureKeys(sk.v))

MissingNames == {m.attachment : m \in Range(Report.missingAttachments)}

\* C2: missingAttachments holds exactly the atlasRequirements whose
\* lower-cased form is not in the region index, and a requirement is
\* satisfied by any parsed region equal to it ignoring letter case.
C2_MissingExactlyUnsatisfied ==
  pc = "done" =>
    /\ MissingNames = {n \in Range(Report.atlasRequirements) : toLowerCase(n) \notin allRegions}
    /\ \A n \in Range(Report.atlasRequirements) :
         n \in MissingNames <=>
           ~\E r \in ParsedRegionNames : toLowerCase(r) = toLowerCase(n)

\* C2 witness: requirement "A" is satisfied by the region written "a" while
\* another requirement is reported missing.
C2_Witness ==
  /\ pc = "done"
  /\ N_A \in Range(Report.atlasRequirements)
  /\ ParsedRegionNames = {N_a}
  /\ N_A \notin MissingNames
  /\ MissingNames # {}

\* C3: whatever the variant, the report's animations hold every animation
\* name of the document's animations field.
C3_AllAnimationsCollected ==
  pc = "done" =>
    \A n \in DocAnimationNames(spineData) : Str(n) \in Range(Report.animations)

ErrorsNaming(X) ==
  {i \in 1..Len(Report.errors) :
     /\ Report.errors[i].type = L_undefinedAttachmentReference
     /\ Report.errors[i].attachment = X}

\* C4: a name referenced by a slot-track keyframe and declared by no skin and
\* no slot default has exactly one undefined_attachment_reference error.
C4_ExactlyOneDanglingError ==
  pc = "done" =>
    \A X \in DocTrackRefs(spineData) \ DocDeclaredNames(spineData) :
      Cardinality(ErrorsNaming(X)) = 1

\* C5: a name referenced only from animation tracks or deform tracks and
\* declared by no skin and no slot default has an
\* undefined_attachment_reference error, deform-only names included.
C5_DanglingDeformError ==
  pc = "done" =>
    \A X \in (DocTrackRefs(spineData) \cup DocDeformRefs(spineData))
               \ DocDeclaredNames(spineData) :
      ErrorsNaming(X) # {}

\* C6: no entry of atlasRequirements equals a declared slot name, ignoring
\* letter case.
C6_NoSlotNameInRequirements ==
  pc = "done" =>
    \A n \in Range(Report.atlasRequirements) : \A sn \in DocSlotNames(spineData) :
      toLowerCase(n) # toLowerCase(sn)

\* C7: no entry of atlasRequirements is the key or the resolved name of a
\* non-texture attachment declaration of a skin.
C7_NoNonTextureInRequirements ==
  pc = "done" =>
    \A dc \in DocDecls(spineData) :
      IsNonTextureDecl(dc.decl) =>
        /\ dc.key \notin Range(Report.atlasRequirements)
        /\ Resolved(dc) \notin Range(Report.atlasRequirements)

\* C8: the key of a non-texture declaration is not in atlasRequirements but
\* is still in definedAttachments.
C8_NonTextureStillDefined ==
  pc = "done" =>
    \A dc \in DocDecls(spineData) :
      IsNonTextureDecl(dc.decl) =>
        /\ dc.key \notin Range(Report.atlasRequirements)
        /\ Str(dc.key) \in Range(Report.definedAttachments)

\* C9: the canonical view's animations field is a sequence for every
\* document and variant.
C9_AnimationsIsSequence ==
  pc \in {"readAtlases", "done"} => isArray(Get(normalizedData, K_animations))

\* C10: for a document that is a mapping, normalize does not raise and tags
\* the view with one of the five variants.
C10_NormalizeTotal ==
  (pc \in {"readAtlases", "done", "failed"} /\ spineData.t = "obj") =>
    /\ raised # "normalize"
    /\ Get(normalizedData, K_type).t = "str"
    /\ Get(normalizedData, K_type).s \in FiveVariants

\* C10 witness: a mapping whose animations field is a mapping with a null
\* entry has been normalized.
C10_Witness ==
  /\ pc = "readAtlases"
  /\ Get(spineData, K_animations) = Obj(<<P(N_r, Null)>>)
  /\ Get(normalizedData, K_type) = Str(T_objectAnimations)
  /\ Get(normalizedData, K_animations) = Arr(<<Obj(<<P(K_name, Str(N_r))>>)>>)


\* C11: for a document classified object-animations whose animations field
\* is a mapping, the report's animations are exactly the non-empty keys of
\* that mapping.
C11_ObjectAnimationsByKey ==
  (/\ pc = "done"
   /\ Get(normalizedData, K_type) = Str(T_objectAnimations)
   /\ Get(spineData, K_animations).t = "obj") =>
    Range(Report.animations)
      = {Str(e.k) : e \in {x \in Range(Entries(Get(spineData, K_animations))) : x.k # <<>>}}

\* the slots of the document that carry a default attachment, with the name
\* it declares: [slot, name]
DocSlotDefaultPairs(d) ==
  {[slot |-> sl, name |-> Get(sl, K_attachment).s] :
     sl \in {x \in DocSlots(d) : Get(x, K_attachment).t = "str"}}
  \cup {[slot |-> sl, name |-> Resolved([key |-> <<>>, decl |-> Get(sl, K_attachment)])] :
          sl \in {x \in DocSlots(d) :
                    /\ Get(x, K_attachment).t = "obj"
                    /\ Resolved([key |-> <<>>, decl |-> Get(x, K_attachment)]) # <<>>}}

\* C12: every slot with a top-level attachment field has its attachment name
\* in requirementsMap with the context slot:<slotName>_default, and the name
\* is in atlasRequirements, with or without a skins key.
C12_SlotDefaultsRequired ==
  pc = "done" =>
    \A sd \in DocSlotDefaultPairs(spineData) :
      /\ (L_slotColon \o String(Or(Get(sd.slot, K_name), Str(L_unknown))) \o L_default)
           \in Range(ReqGet(Report.requirementsMap, sd.name))
      /\ sd.name \in Range(Report.atlasRequirements)

\* the places deform[skinName][slotName] of the document's animations that
\* reference an attachment name: [name, anim, skin, slot]
DocDeformPlaces(d) ==
  UNION {
    UNION {
      UNION {
        {[name |-> att.k, anim |-> a.name, skin |-> sk.k, slot |-> sl.k] :
           att \in Range(Entries(sl.v))} :
        sl \in {x \in Range(Entries(sk.v)) : sk.v.t = "obj" /\ x.v.t = "obj"}} :
      sk \in {x \in Range(Entries(Get(a.data, K_deform))) :
                Get(a.data, K_deform).t = "obj"}} :
    a \in {x \in DocAnimations(d) : x.data.t = "obj"}}

\* a name that addAttachmentRequirement is meant to record
Recordable(n) == n # <<>> /\ n # L_null /\ trim(n) # <<>>

DeformContexts(name) ==
  {c \in Range(ReqGet(Report.requirementsMap, name)) : startsWith(c, L_deformColon)}

\* C13: a name referenced by a deform track at exactly one place
\* deform[skinName][slotName] of one animation is in requirementsMap, and
\* its only deform context is deform:<animName>.<skinName>.<slotName>.
C13_OneDeformContext ==
  pc = "done" =>
    \A pl \in DocDeformPlaces(spineData) :
      (/\ Recordable(pl.name)
       /\ \A other \in DocDeformPlaces(spineData) : other.name = pl.name => other = pl) =>
        /\ ReqHas(Report.requirementsMap, pl.name)
        /\ DeformContexts(pl.name)
             = {L_deformColon \o pl.anim \o <<".">> \o pl.skin \o <<".">> \o pl.slot}

\* C14: every name of requirementsMap has a non-empty context list, and no
\* recorded name is empty, the literal 'null' or whitespace only.
C14_RecordedNamesReferenced ==
  pc = "done" =>
    \A i \in 1..Len(Report.requirementsMap) :
      /\ Report.requirementsMap[i].contexts # <<>>
      /\ Recordable(Report.requirementsMap[i].name)

\* C16: a run whose JSON text does not parse, or parses to a value that is
\* not a mapping, ends as a failure raised before a canonical view exists,
\* and stores no report.
C16_MalformedFailsFast ==
  (pc \in {"done", "failed"} /\ spineData.t # "obj") =>
    /\ pc = "failed"
    /\ raised \in {"parse", "normalize"}
    /\ validation = <<>>
    /\ validationResults = <<>>

\* C15: whenever a validation request completes, validationResults is the
\* report of that request; a request that fails leaves no report of an
\* earlier request as the current one.
C15_CurrentReportIsOfLatestRequest ==
  [][\A r \in 1..Len(runs) :
       (runs[r].pc \notin {"done", "failed"} /\ runs'[r].pc \in {"done", "failed"}) =>
         IF runs'[r].pc = "done"
         THEN validationResults' = runs'[r].validation
         ELSE validationResults' = <<>>]_vars

ViewOnlyKeys == {K_type, K_animations}

\* C18: once parsed, the input document never changes: it is still one of
\* the parsed inputs, every key of it is in the canonical view with the
\* same value (animations and a type key apart), and later steps of the run
\* leave it as it is.
C18_DocumentReadOnly ==
  /\ []((pc \in {"readAtlases", "done"}) =>
          /\ spineData \in Documents \cup NonMappingValues
          /\ \A e \in Range(Entries(spineData)) :
               e.k \notin ViewOnlyKeys => Get(normalizedData, e.k) = e.v)
  /\ [][pc # "readJson" => spineData' = spineData]_vars

\* C18 witness: a run has ended for a document whose animations are a
\* mapping; the view holds a type tag and the converted animations, the
\* document neither.
C18_Witness ==
  /\ pc = "done"
  /\ Get(spineData, K_animations).t = "obj"
  /\ Get(spineData, K_skins).t = "obj"
  /\ ~HasKey(spineData, K_type)
  /\ Get(normalizedData, K_type) = Str(T_objectAnimations)
  /\ Get(normalizedData, K_animations).t = "arr"
  /\ Len(Report.requirementsMap) > 0

NonEmptyCollection(v) == v.t \in {"arr", "obj"} /\ v.e # <<>>

\* C19: a document that is neither standard, legacy nor object-animations
\* is complex exactly when its skins and its animations are both non-empty
\* sequences or mappings, and unknown otherwise.
C19_ComplexNeedsNonEmpty ==
  (/\ pc \in {"readAtlases", "done"}
   /\ Get(normalizedData, K_type).s \in {T_complex, T_unknown}) =>
    (Get(normalizedData, K_type) = Str(T_complex)
       <=> /\ NonEmptyCollection(Get(spineData, K_skins))
           /\ NonEmptyCollection(Get(spineData, K_animations)))

\* C20: a name referenced by a slot-track keyframe that equals no declared
\* key, override or slot default exactly, but equals one ignoring letter
\* case, has an undefined_attachment_reference error.
C20_DefinedIsCaseSensitive ==
  pc = "done" =>
    \A X \in DocTrackRefs(spineData) \ DocDeclaredNames(spineData) :
      (\E n \in DocDeclaredNames(spineData) : toLowerCase(n) = toLowerCase(X)) =>
        ErrorsNaming(X) # {}

\* the region index of a selection of atlas files: the lower-cased region
\* names of every descriptor of it that parses
IndexOf(atlases) ==
  UNION {{toLowerCase(n) : n \in Range(atlases[i].regions)} :
           i \in {j \in 1..Len(atlases) : atlases[j].ok}}

\* C21: a run holds missingAttachments and the per-skin missing lists only
\* once every atlas file it asked for has been read and indexed and the
\* requirements extractor has returned: both are computed against the index
\* of all of its descriptors, and the index and the report never change
\* afterwards.
C21_CrossReferenceAfterEveryRead ==
  /\ [](\A r \in 1..Len(runs) :
          runs[r].validation # <<>> =>
            /\ \A i \in 1..Len(runs[r].atlases) :
                 runs[r].contents[i] = <<runs[r].atlases[i]>>
            /\ runs[r].allRegions = IndexOf(runs[r].atlases)
            /\ ~ExtractThrows(runs[r].normalizedData)
            /\ {m.attachment : m \in Range(runs[r].validation[1].missingAttachments)}
                 = {n \in Range(runs[r].validation[1].atlasRequirements) :
                      toLowerCase(n) \notin IndexOf(runs[r].atlases)}
            /\ \A i \in 1..Len(runs[r].validation[1].skins) :
                 \A m \in Range(runs[r].validation[1].skins[i].missing) :
                   toLowerCase(String(m)) \notin IndexOf(runs[r].atlases))
  /\ [][\A r \in 1..Len(runs) :
          runs[r].validation # <<>> =>
            /\ runs'[r].allRegions = runs[r].allRegions
            /\ runs'[r].contents = runs[r].contents
            /\ runs'[r].validation = runs[r].validation]_vars

\* C21 witness: a run over two atlas files has ended with both indexed, its
\* report holding a skin, requirements the index satisfies and missing
\* attachments.
C21_Witness ==
  \E r \in 1..Len(runs) :
    /\ runs[r].pc = "done"
    /\ Len(runs[r].atlases) = 2
    /\ runs[r].allRegions = {N_a, N_b}
    /\ runs[r].validation[1].missingAttachments # <<>>
    /\ Len(runs[r].validation[1].missingAttachments)
         < Len(runs[r].validation[1].atlasRequirements)
    /\ runs[r].validation[1].skins # <<>>

\* C24: the report of a completed run is computed from the selection as it
\* was when the run started: its document, its atlas files and its images
\* are those selected at that moment.
C24_OneSnapshotOfSelection ==
  \A r \in 1..Len(runs) :
    runs[r].pc = "done" =>
      /\ runs[r].text = runs[r].started.json
      /\ runs[r].atlases = runs[r].started.atlases
      /\ runs[r].images = runs[r].started.images

\* C25: whenever no load run is in progress, the load button is enabled
\* only if a JSON file, an atlas file and an image are selected.
C25_LoadEnabledOnlyWithAllFiles ==
  (\A r \in 1..Len(runs) : runs[r].button = "load" => runs[r].ended) =>
    (~loadDisabled => hasAllFiles(files))

\* the region names written in the descriptors that did not parse
FailedRegionNames ==
  UNION {Range(atlasContents[i].regions) :
           i \in {j \in 1..Len(atlasContents) : ~atlasContents[j].ok}}

\* C22: a descriptor that does not parse does not make the run fail: the
\* index holds the lower-cased region names of the descriptors that parsed
\* and no others, the run fails only if the requirements extractor threw,
\* and otherwise its report lists as missing every requirement that only a
\* failing descriptor would have satisfied.
C22_FailingDescriptorSkipped ==
  (pc \in {"done", "failed"} /\ \E i \in 1..Len(atlasContents) : ~atlasContents[i].ok) =>
    /\ allRegions = {toLowerCase(n) : n \in ParsedRegionNames}
    /\ pc = "failed" => raised = "extract" /\ ExtractThrows(normalizedData)
    /\ pc = "done" =>
         /\ validation # <<>> /\ validationResults = validation
         /\ \A n \in Range(Report.atlasRequirements) :
              (/\ toLowerCase(n) \in {toLowerCase(m) : m \in FailedRegionNames}
               /\ toLowerCase(n) \notin {toLowerCase(m) : m \in ParsedRegionNames})
                => n \in MissingNames

\* C22 witness: of two descriptors the first does not parse and the second
\* does; the run has ended with a report in which a requirement found in
\* the second is satisfied and one found only in the first is missing.
C22_Witness ==
  /\ pc = "done"
  /\ atlasContents = <<[ok |-> FALSE, regions |-> <<N_b>>], [ok |-> TRUE, regions |-> <<N_a>>]>>
  /\ allRegions = {N_a}
  /\ N_b \in MissingNames
  /\ N_a \in Range(Report.atlasRequirements) \ MissingNames

\* C27: for every document that normalizeSpineData accepts, the
\* requirements extractor returns a report and does not throw: a run that
\* got as far as the extractor ends with a report.
C27_ExtractorNeverThrows ==
  /\ pc = "readAtlases" => ~ExtractThrows(normalizedData)
  /\ (pc \in {"done", "failed"} /\ raised \notin {"parse", "normalize"}) =>
       pc = "done" /\ attachmentReport # <<>>

\* an object that exposes name or animation
Exposes(v) ==
  /\ Truthy(v) /\ TypeofObject(v)
  /\ (Truthy(Get(v, K_name)) \/ Truthy(Get(v, K_animation)))

\* the keys leading to every object or array inside v, v itself included
RECURSIVE ObjectPaths(_)
ObjectPaths(v) ==
  {<<>>} \cup UNION {{<<e.k>> \o p : p \in ObjectPaths(e.v)} :
                       e \in {x \in Range(Entries(v)) : Truthy(x.v) /\ TypeofObject(x.v)}}

RECURSIVE At(_, _)
At(v, path) ==
  IF path = <<>> THEN v
  ELSE At((CHOOSE e \in Range(Entries(v)) : e.k = Head(path)).v, Tail(path))

\* the objects below the root that expose name or animation while nothing
\* between the root and them does
TopClassified(root) ==
  {p \in ObjectPaths(root) \ {<<>>} :
     /\ Exposes(At(root, p))
     /\ \A k \in 1..(Len(p) - 1) : ~Exposes(At(root, SubSeq(p, 1, k)))}

\* C23: for the unknown variant the walk ends, and the names it collects
\* are those of the objects that expose name or animation and lie inside no
\* other such object, each by its name field or else its animation field;
\* nothing nested in a classified object contributes a name.
C23_FallbackStopsAtClassified ==
  (pc = "done" /\ Get(normalizedData, K_type) = Str(T_unknown)) =>
    Range(Report.animations)
      = {IF Truthy(Get(At(normalizedData, p), K_name))
         THEN Get(At(normalizedData, p), K_name)
         ELSE Get(At(normalizedData, p), K_animation) : p \in TopClassified(normalizedData)}

\* C23 witness: an unknown-variant document whose animations array holds an
\* object with an animation field and no name, and inside it a keyframe
\* object with a name; the first is collected, the second is not.
C23_Witness ==
  /\ pc = "done" /\ Get(normalizedData, K_type) = Str(T_unknown)
  /\ Str(N_q) \in Range(Report.animations)
  /\ \E p \in ObjectPaths(normalizedData) \ TopClassified(normalizedData) :
       /\ Exposes(At(normalizedData, p))
       /\ Get(At(normalizedData, p), K_name) = Str(N_e)
  /\ Str(N_e) \notin Range(Report.animations)

\* the atlasContents array that holds the text of every atlas file of a
\* selection at the index of the file
TextsOf(atlases) == [i \in 1..Len(atlases) |-> <<atlases[i]>>]

\* C26: loadSpine is invoked for a trigger at most once, and only with the
\* JSON text of the trigger's selection and with atlasContents[i] the text
\* of the i-th atlas file of that selection, every one of them read.
C26_LoadSpineOncePerTrigger ==
  \A t \in 1..Len(triggers) :
    /\ Len(triggers[t].calls) <= 1
    /\ \A c \in Range(triggers[t].calls) :
         /\ c.jsonContent = triggers[t].selection.json
         /\ c.atlasContents = TextsOf(triggers[t].selection.atlases)

=============================================================================
